---- MODULE Spec2Model ----
(***************************************************************************)
(* A model of solax/inverter.py: the two inverter variants (XHybrid, X3),   *)
(* their voluptuous schemas and sensor maps, the XHybrid payload repair,    *)
(* Inverter.get_data's exception translation and the discover() loop over   *)
(* REGISTRY.                                                                *)
(***************************************************************************)
EXTENDS Integers, Sequences, FiniteSets, TLC

\* ------------------------------------------------------------------------
\* Bounds of the model
\* ------------------------------------------------------------------------
\* payload fixtures are generated with multipliers 1..MaxSeed
MaxSeed == 2
\* raw texts of the repair specification have at most MaxTextLen characters
MaxTextLen == 6

\* ------------------------------------------------------------------------
\* Program constants
\* ------------------------------------------------------------------------
XHybridDataLenA == 58
XHybridDataLenB == 68
X3DataLen == 103
X3InfoLen == 9
StatusMin == 0

\* mutant: the registry in the opposite order
REGISTRYReversed == <<"X3", "XHybrid">>

\* registry of inverters
REGISTRY == <<"XHybrid", "X3">>

XHybridEntries ==
    <<
       <<"PV1 Current", 0, "A">>,
       <<"PV2 Current", 1, "A">>,
       <<"PV1 Voltage", 2, "V">>,
       <<"PV2 Voltage", 3, "V">>,
       <<"Output Current", 4, "A">>,
       <<"Network Voltage", 5, "V">>,
       <<"Power Now", 6, "W">>,
       <<"Inverter Temperature", 7, "C">>,
       <<"Today's Energy", 8, "kWh">>,
       <<"Total Energy", 9, "kWh">>,
       <<"Exported Power", 10, "W">>,
       <<"PV1 Power", 11, "W">>,
       <<"PV2 Power", 12, "W">>,
       <<"Battery Voltage", 13, "V">>,
       <<"Battery Current", 14, "A">>,
       <<"Battery Power", 15, "W">>,
       <<"Battery Temperature", 16, "C">>,
       <<"Battery Remaining Capacity", 17, "%">>,
       <<"Month's Energy", 19, "kWh">>,
       <<"Grid Frequency", 50, "Hz">>,
       <<"EPS Voltage", 53, "V">>,
       <<"EPS Current", 54, "A">>,
       <<"EPS Power", 55, "W">>,
       <<"EPS Frequency", 56, "Hz">>
    >>

X3Entries ==
    <<
       <<"PV1 Current", 0, "A">>,
       <<"PV2 Current", 1, "A">>,
       <<"PV1 Voltage", 2, "V">>,
       <<"PV2 Voltage", 3, "V">>,
       <<"Output Current Phase 1", 4, "A">>,
       <<"Network Voltage Phase 1", 5, "V">>,
       <<"AC Power", 6, "W">>,
       <<"Inverter Temperature", 7, "C">>,
       <<"Today's Energy", 8, "kWh">>,
       <<"Total Energy", 9, "kWh">>,
       <<"Exported Power", 10, "W">>,
       <<"PV1 Power", 11, "W">>,
       <<"PV2 Power", 12, "W">>,
       <<"Battery Voltage", 13, "V">>,
       <<"Battery Current", 14, "A">>,
       <<"Battery Power", 15, "W">>,
       <<"Battery Temperature", 16, "C">>,
       <<"Battery Remaining Capacity", 21, "%">>,
       <<"Total Feed-in Energy", 41, "kWh">>,
       <<"Total Consumption", 42, "kWh">>,
       <<"Power Now Phase 1", 43, "W">>,
       <<"Power Now Phase 2", 44, "W">>,
       <<"Power Now Phase 3", 45, "W">>,
       <<"Output Current Phase 2", 46, "A">>,
       <<"Output Current Phase 3", 47, "A">>,
       <<"Network Voltage Phase 2", 48, "V">>,
       <<"Network Voltage Phase 3", 49, "V">>,
       <<"Grid Frequency Phase 1", 50, "Hz">>,
       <<"Grid Frequency Phase 2", 51, "Hz">>,
       <<"Grid Frequency Phase 3", 52, "Hz">>,
       <<"EPS Voltage", 53, "V">>,
       <<"EPS Current", 54, "A">>,
       <<"EPS Power", 55, "W">>,
       <<"EPS Frequency", 56, "Hz">>
    >>

\* a dict literal: one key per distinct name, the last entry of a name wins
Dict(entries) ==
    [name \in {entries[k][1] : k \in 1..Len(entries)} |->
       LET k == CHOOSE k \in 1..Len(entries) :
                    /\ entries[k][1] = name
                    /\ \A j \in (k + 1)..Len(entries) : entries[j][1] # name
       IN <<entries[k][2], entries[k][3]>>]

\* mutant: the last entry of the table is lost
XHybridSensorMapTruncated ==
    Dict(SubSeq(XHybridEntries, 1, Len(XHybridEntries) - 1))

\* XHybrid.__sensor_map: name -> (index, unit)
XHybridSensorMap == Dict(XHybridEntries)

\* X3.__sensor_map: name -> (index, unit)
X3SensorMap == Dict(X3Entries)

\* cls.sensor_map()
sensor_map(cls) == IF cls = "XHybrid" THEN XHybridSensorMap ELSE X3SensorMap

\* ------------------------------------------------------------------------
\* Outcomes of a call: a returned value or a raised exception
\* ------------------------------------------------------------------------
Return(v) == [kind |-> "return", value |-> v]
Raise(e)  == [kind |-> "raise", exc |-> e]
RaiseFrom(e, m, c) == [kind |-> "raise", exc |-> e, msg |-> m, cause |-> c]

\* Exception classes and the classes an `except` clause catches them under.
\* asyncio.TimeoutError (aiohttp's total timeout) and CancelledError are not
\* aiohttp.ClientError, ValueError or vol.Invalid.
IsInstance(exc, base) ==
    \/ exc = base
    \/ base = "ClientError" /\ exc \in {"ClientConnectorError", "ClientOSError"}
    \/ base = "ValueError"  /\ exc \in {"UnicodeDecodeError", "JSONDecodeError"}
    \/ base = "Invalid"     /\ exc \in {"MultipleInvalid"}

\* ------------------------------------------------------------------------
\* Text: a sequence of one-character strings
\* ------------------------------------------------------------------------
Digits == <<"1", "2", "3", "4", "5", "6", "7", "8", "9">>
IsDigit(c) == \E k \in 1..9 : Digits[k] = c
DigitVal(c) == CHOOSE k \in 1..9 : Digits[k] = c

\* str.find(",,", i): the first occurrence at or after position i, 0 if none
Find(s, i) ==
    LET M == {j \in i..(Len(s) - 1) : s[j] = "," /\ s[j + 1] = ","} IN
    IF M = {} THEN 0 ELSE CHOOSE j \in M : \A k \in M : j <= k

\* str.replace(",,", ",0.0,"): non-overlapping occurrences, left to right;
\* each occurrence found is replaced and the search resumes behind it
RECURSIVE ReplaceFrom(_, _)
ReplaceFrom(s, i) ==
    LET j == Find(s, i) IN
    IF j = 0 THEN SubSeq(s, i, Len(s))
    ELSE SubSeq(s, i, j - 1) \o <<",", "0", ".", "0", ",">>
           \o ReplaceFrom(s, j + 2)

Replace(s) == ReplaceFrom(s, 1)

\* mutant: a single replacement pass
RepairOnce(s) == Replace(s)

\* formatted.replace(",,", ",0.0,").replace(",,", ",0.0,")
Repair(s) == Replace(Replace(s))

\* ------------------------------------------------------------------------
\* What the device at (host, port) answers to one request.  A wire value
\* describes the reply: a transport failure, or a body whose Data array is
\* written out as text by DataText.
\* ------------------------------------------------------------------------
FamilyKeys(fam) ==
    IF fam = "XHybrid"
    THEN {"method", "version", "type", "SN", "Data", "Status"}
    ELSE {"type", "SN", "ver", "Data", "Information"}

\* the digit the fixture puts at (0-based) position i of Data
ElemDigit(i, seed) == Digits[((i * seed) % 9) + 1]

DataToken(w, i) ==
    IF i \in w.holes THEN <<>>
    ELSE IF i \in w.nulls THEN <<"n">>
    ELSE IF i \in w.words THEN <<"\"", "x", "\"">>
    ELSE IF i \in w.quoted THEN <<"\"", ElemDigit(i, w.seed), "\"">>
    ELSE <<ElemDigit(i, w.seed)>>

\* the tokens of positions lo..hi joined by separators
RECURSIVE DataTextFrom(_, _, _)
DataTextFrom(w, lo, hi) ==
    IF lo > hi THEN <<>>
    ELSE IF lo = hi THEN DataToken(w, lo)
    ELSE LET mid == (lo + hi) \div 2 IN
         DataTextFrom(w, lo, mid) \o <<",">> \o DataTextFrom(w, mid + 1, hi)

\* the text between the brackets of the Data array, as the device sends it
DataText(w) == DataTextFrom(w, 0, w.dataLen - 1)

\* ------------------------------------------------------------------------
\* json.loads: values are tagged with their Python type
\* ------------------------------------------------------------------------
\* the pieces of s[lo..hi] between separators
RECURSIVE Split(_, _, _)
Split(s, lo, hi) ==
    LET C == {c \in lo..hi : s[c] = ","} IN
    IF C = {} THEN <<SubSeq(s, lo, hi)>>
    ELSE LET mid == (lo + hi) \div 2
             dist(c) == IF c >= mid THEN c - mid ELSE mid - c
             c == CHOOSE x \in C : \A y \in C :
                     dist(x) < dist(y) \/ (dist(x) = dist(y) /\ x <= y)
         IN Split(s, lo, c - 1) \o Split(s, c + 1, hi)

IsJsonToken(tok) ==
    \/ Len(tok) = 1 /\ (IsDigit(tok[1]) \/ tok[1] = "n")
    \/ tok = <<"0", ".", "0">>
    \/ Len(tok) = 3 /\ tok[1] = "\"" /\ tok[3] = "\"" /\ tok[2] # "\""

JsonValue(tok) ==
    IF Len(tok) = 1
    THEN IF tok[1] = "n" THEN [t |-> "null"]
         ELSE [t |-> "int", v |-> DigitVal(tok[1])]
    ELSE IF tok[1] = "\"" THEN [t |-> "str", s |-> tok[2]]
    ELSE [t |-> "float", v |-> 0]

\* the elements of a JSON array written as text; "raise" when it is not JSON
JsonArray(text) ==
    IF text = <<>> THEN Return(<<>>)
    ELSE LET toks == Split(text, 1, Len(text)) IN
         IF \E k \in 1..Len(toks) : ~IsJsonToken(toks[k])
         THEN Raise("JSONDecodeError")
         ELSE Return([k \in 1..Len(toks) |-> JsonValue(toks[k])])

MetaValue(w, key) ==
    IF key \in w.numeric THEN [t |-> "int", v |-> 5]
    ELSE IF key = "Status" THEN w.status
    ELSE IF key = "Information"
         THEN [t |-> "list", items |-> [k \in 1..w.infoLen |-> [t |-> "int", v |-> k]]]
    ELSE [t |-> "str", s |-> w.family \o "-" \o key]

json_loads(w, dataText) ==
    IF w.syntax = "html" THEN Raise("JSONDecodeError")
    ELSE LET arr == JsonArray(dataText) IN
         IF arr.kind = "raise" THEN arr
         ELSE IF w.syntax = "array"
              THEN Return([t |-> "list", items |-> arr.value])
         ELSE LET keys == (FamilyKeys(w.family) \ w.missing)
                            \cup (IF w.extra THEN {"extra"} ELSE {}) IN
              Return([t |-> "dict",
                      d |-> [k \in keys |->
                               IF k = "Data" /\ k \notin w.numeric
                               THEN [t |-> "list", items |-> arr.value]
                               ELSE MetaValue(w, k)]])

\* ------------------------------------------------------------------------
\* voluptuous validators
\* ------------------------------------------------------------------------
Ok(v) == [ok |-> TRUE, v |-> v]
Bad == [ok |-> FALSE]

\* vol.Coerce(float)
CoerceFloat(x) ==
    CASE x.t = "int"   -> Ok([t |-> "float", v |-> x.v])
      [] x.t = "float" -> Ok(x)
      [] x.t = "str"   -> IF IsDigit(x.s)
                          THEN Ok([t |-> "float", v |-> DigitVal(x.s)])
                          ELSE Bad
      [] OTHER         -> Bad

\* vol.Coerce(int)
CoerceInt(x) ==
    CASE x.t = "int"   -> Ok(x.v)
      [] x.t = "float" -> Ok(x.v)
      [] x.t = "str"   -> IF IsDigit(x.s) THEN Ok(DigitVal(x.s)) ELSE Bad
      [] OTHER         -> Bad

\* [vol.Coerce(float)]
CoerceFloatList(x) ==
    IF x.t # "list" THEN Bad
    ELSE IF \E k \in 1..Len(x.items) : ~CoerceFloat(x.items[k]).ok THEN Bad
    ELSE Ok([k \in 1..Len(x.items) |-> CoerceFloat(x.items[k]).v])

\* vol.Length(min=lo, max=hi)
Length(v, lo, hi) == Len(v) >= lo /\ Len(v) <= hi

IsStr(d, key) == d[key].t = "str"

\* mutant: the second revision's length is not accepted
XHybridDataLengthOk58Only(v) == Length(v, XHybridDataLenA, XHybridDataLenA)

\* mutant: the first length has no lower limit
XHybridDataLengthOkNoMin(v) ==
    \/ Len(v) <= XHybridDataLenA
    \/ Length(v, XHybridDataLenB, XHybridDataLenB)

\* vol.Any(vol.Length(min=58, max=58), vol.Length(min=68, max=68))
XHybridDataLengthOk(v) ==
    \/ Length(v, XHybridDataLenA, XHybridDataLenA)
    \/ Length(v, XHybridDataLenB, XHybridDataLenB)

\* XHybrid.__schema
XHybridSchema(obj) ==
    IF obj.t # "dict" THEN Raise("MultipleInvalid")
    ELSE LET d == obj.d
             req == {"method", "version", "type", "SN", "Data", "Status"}
         IN
         IF ~(req \subseteq DOMAIN d) THEN Raise("MultipleInvalid")
         ELSE IF \E k \in {"method", "version", "type", "SN"} : ~IsStr(d, k)
              THEN Raise("MultipleInvalid")
         ELSE LET data == CoerceFloatList(d["Data"])
                  status == CoerceInt(d["Status"])
              IN
              IF ~data.ok \/ ~XHybridDataLengthOk(data.v)
              THEN Raise("MultipleInvalid")
              ELSE IF ~status.ok \/ status.v < StatusMin
                   THEN Raise("MultipleInvalid")
              ELSE Return([k \in req |->
                             CASE k = "Data"   -> data.v
                               [] k = "Status" -> status.v
                               [] OTHER        -> d[k].s])

\* X3.__schema
X3Schema(obj) ==
    IF obj.t # "dict" THEN Raise("MultipleInvalid")
    ELSE LET d == obj.d
             req == {"type", "SN", "ver", "Data", "Information"}
         IN
         IF ~(req \subseteq DOMAIN d) THEN Raise("MultipleInvalid")
         ELSE IF \E k \in {"type", "SN", "ver"} : ~IsStr(d, k)
              THEN Raise("MultipleInvalid")
         ELSE LET data == CoerceFloatList(d["Data"]) IN
              IF ~data.ok \/ ~Length(data.v, X3DataLen, X3DataLen)
              THEN Raise("MultipleInvalid")
              ELSE IF ~Length(d["Information"].items, X3InfoLen, X3InfoLen)
                   THEN Raise("MultipleInvalid")
              ELSE Return([k \in req |->
                             CASE k = "Data"        -> data.v
                               [] k = "Information" -> d[k].items
                               [] OTHER             -> d[k].s])

\* ------------------------------------------------------------------------
\* Inverter
\* ------------------------------------------------------------------------
InverterResponse(data, serial_number, version, type) ==
    [obj |-> "InverterResponse", data |-> data,
     serial_number |-> serial_number, version |-> version, type |-> type]

\* Inverter.__init__
Inverter(cls, host, port) ==
    [obj |-> "Inverter", cls |-> cls, host |-> host, port |-> port]

\* mutant: every reading is taken one position too far
map_responseShifted(resp_data, smap) ==
    IF \E name \in DOMAIN smap : smap[name][1] + 2 > Len(resp_data)
    THEN Raise("IndexError")
    ELSE Return([name \in DOMAIN smap |-> resp_data[smap[name][1] + 2]])

\* Inverter.map_response; resp_data[i] raises IndexError past the end
map_response(resp_data, smap) ==
    IF \E name \in DOMAIN smap : smap[name][1] + 1 > Len(resp_data)
    THEN Raise("IndexError")
    ELSE Return([name \in DOMAIN smap |-> resp_data[smap[name][1] + 1]])

\* the request a variant issues: method and formatted url
Request(i) ==
    IF i.cls = "XHybrid"
    THEN [cls |-> i.cls, method |-> "GET",
          url |-> <<"http://", i.host, ":", i.port, "/api/realTimeData.htm">>]
    ELSE [cls |-> i.cls, method |-> "POST",
          url |-> <<"http://", i.host, ":", i.port, "/?optType=ReadRealTimeData">>]

\* XHybrid.make_request / X3.make_request, from the reply on
make_request(cls, w) ==
    IF w.fail # "none" THEN Raise(w.fail)
    ELSE IF w.enc # "utf8" THEN Raise("UnicodeDecodeError")
    ELSE LET formatted == IF cls = "XHybrid" THEN Repair(DataText(w))
                          ELSE DataText(w)
             json_response == json_loads(w, formatted)
         IN
         IF json_response.kind = "raise" THEN json_response
         ELSE LET response == IF cls = "XHybrid"
                              THEN XHybridSchema(json_response.value)
                              ELSE X3Schema(json_response.value)
              IN
              IF response.kind = "raise" THEN response
              ELSE LET r == response.value
                       data == map_response(r["Data"], sensor_map(cls))
                   IN
                   IF data.kind = "raise" THEN data
                   ELSE Return(InverterResponse(
                            data.value, r["SN"],
                            IF cls = "XHybrid" THEN r["version"] ELSE r["ver"],
                            r["type"]))

\* mutant: a catch-all clause turns every exception into InverterError
TranslateCatchAll(data) ==
    IF data.kind = "return" THEN data
    ELSE RaiseFrom("InverterError",
                   "Could not connect to inverter endpoint", data.exc)

\* the except clauses of Inverter.get_data, applied to make_request's outcome
Translate(data) ==
    IF data.kind = "return" THEN data
    ELSE IF IsInstance(data.exc, "ClientError")
         THEN RaiseFrom("InverterError",
                        "Could not connect to inverter endpoint", data.exc)
    ELSE IF IsInstance(data.exc, "ValueError")
         THEN RaiseFrom("InverterError",
                        "Received non-JSON data from inverter endpoint", data.exc)
    ELSE IF IsInstance(data.exc, "Invalid")
         THEN RaiseFrom("InverterError",
                        "Received malformed JSON from inverter", data.exc)
    ELSE data

\* Inverter.get_data
get_data(cls, w) == Translate(make_request(cls, w))

\* ------------------------------------------------------------------------
\* The replies the device may give
\* ------------------------------------------------------------------------
Hosts == {"192.168.0.10", "solax.local"}
Ports == {80, 8080}

DataLens ==
    {0, XHybridDataLenA - 1, XHybridDataLenA, XHybridDataLenA + 1,
     XHybridDataLenB - 1, XHybridDataLenB, XHybridDataLenB + 1,
     X3DataLen - 1, X3DataLen, X3DataLen + 1}
InfoLens == {X3InfoLen - 1, X3InfoLen, X3InfoLen + 1}
GoodLens(fam) ==
    IF fam = "XHybrid" THEN {XHybridDataLenA, XHybridDataLenB}
    ELSE {X3DataLen}

\* positions (0-based) of Data whose value the device omits
HoleChoices(len) ==
    {{}, {3}, {3, 4}, {3, 4, 5}, {3, 4, 5, 6, 7}, {17, 19} \cup (21..50),
     {0}, {len - 1}}

StatusChoices ==
    {[t |-> "int", v |-> 0], [t |-> "int", v |-> 2], [t |-> "int", v |-> -1],
     [t |-> "str", s |-> "2"], [t |-> "str", s |-> "x"], [t |-> "null"]}
GoodStatus ==
    {[t |-> "int", v |-> 0], [t |-> "int", v |-> 2], [t |-> "str", s |-> "2"]}

BaseWire(fam, len, info, seed) ==
    [fail |-> "none", enc |-> "utf8", syntax |-> "object", family |-> fam,
     missing |-> {}, numeric |-> {}, extra |-> FALSE,
     dataLen |-> len, seed |-> seed, holes |-> {}, quoted |-> {},
     words |-> {}, nulls |-> {}, infoLen |-> info,
     status |-> [t |-> "int", v |-> 0]]

GoodWires ==
    {BaseWire(fam, len, X3InfoLen, seed) :
        fam \in {"XHybrid", "X3"}, len \in DataLens, seed \in 1..MaxSeed}

Wires ==
    LET good == {w \in GoodWires : w.dataLen \in GoodLens(w.family)} IN
      GoodWires
      \cup {[w EXCEPT !.infoLen = n] : w \in GoodWires, n \in InfoLens}
      \cup {[w EXCEPT !.fail = f] : w \in good,
              f \in {"ClientConnectorError", "ClientOSError", "TimeoutError"}}
      \cup {[w EXCEPT !.enc = "bad"] : w \in good}
      \cup {[w EXCEPT !.syntax = x] : w \in good, x \in {"html", "array"}}
      \cup UNION {{[w EXCEPT !.missing = {k}] : k \in FamilyKeys(w.family)} :
                    w \in good}
      \cup UNION {{[w EXCEPT !.numeric = {k}] :
                      k \in FamilyKeys(w.family) \ {"Status", "Information"}} :
                    w \in good}
      \cup {[w EXCEPT !.extra = TRUE] : w \in good}
      \cup UNION {{[w EXCEPT !.holes = h] : h \in HoleChoices(w.dataLen)} :
                    w \in good}
      \cup {[w EXCEPT !.quoted = {0, 5, 56}] : w \in good}
      \cup {[w EXCEPT !.words = {7}] : w \in good}
      \cup {[w EXCEPT !.nulls = {7}] : w \in good}
      \cup {[w EXCEPT !.status = st] : w \in good, st \in StatusChoices}

\* ------------------------------------------------------------------------
\* State
\* ------------------------------------------------------------------------
VARIABLES
    pc,         \* "idle", "inflight" (a request awaits its reply), "done";
                \* "raw" / "formatted" in the repair specification
    call,       \* the operation the caller invoked: "discover" or "get_data"
    args,       \* its (host, port)
    idx,        \* position of discover's loop in REGISTRY (0: no discover)
    inst,       \* the Inverter instance whose request is in flight
    requests,   \* every request issued so far
    absorbed,   \* the InverterErrors discover has caught and dropped
    wire,       \* the reply the finished call received last
    cancelled,  \* the caller cancelled the call
    result,     \* what the call handed to its caller
    raw,        \* repair specification: the text received
    formatted   \* repair specification: the text after the repair

vars == <<pc, call, args, idx, inst, requests, absorbed, wire, cancelled,
          result, raw, formatted>>

NoWire == [none |-> TRUE]
NoResult == [kind |-> "none"]
None == [obj |-> "None"]

Init ==
    /\ pc = "idle"
    /\ call = "none"
    /\ args = <<>>
    /\ idx = 0
    /\ inst = None
    /\ requests = <<>>
    /\ absorbed = <<>>
    /\ wire = NoWire
    /\ cancelled = FALSE
    /\ result = NoResult
    /\ raw = <<>>
    /\ formatted = <<>>

\* ------------------------------------------------------------------------
\* discover(host, port)
\* ------------------------------------------------------------------------
\* except InverterError: pass
Absorbs(r) == r.kind = "raise" /\ IsInstance(r.exc, "InverterError")

\* mutant: the response of the probe is handed out
DiscoverReturnData(i, data) == Return(data)

\* await i.get_data(); return i
DiscoverReturn(i, data) == Return(i)

\* mutant: the loop falls through without raising
AfterLoopNone == Return(None)

\* raise DiscoveryError()
AfterLoop == Raise("DiscoveryError")

\* the caller invokes discover: the loop starts and the first probe's
\* request goes out
Discover(host, port) ==
    /\ pc = "idle"
    /\ call' = "discover"
    /\ args' = <<host, port>>
    /\ idx' = 1
    /\ inst' = Inverter(REGISTRY[1], host, port)
    /\ requests' = Append(requests, Request(inst'))
    /\ pc' = "inflight"
    /\ UNCHANGED <<absorbed, wire, cancelled, result, raw, formatted>>

\* the caller invokes get_data on an adapter it constructed itself
GetData(cls, host, port) ==
    /\ pc = "idle"
    /\ call' = "get_data"
    /\ args' = <<host, port>>
    /\ inst' = Inverter(cls, host, port)
    /\ requests' = Append(requests, Request(inst'))
    /\ pc' = "inflight"
    /\ UNCHANGED <<idx, absorbed, wire, cancelled, result, raw, formatted>>

\* the caller invokes get_data on the adapter discover returned
FetchReturned ==
    /\ pc = "done"
    /\ call = "discover"
    /\ result.kind = "return"
    /\ result.value.obj = "Inverter"
    /\ call' = "get_data"
    /\ inst' = result.value
    /\ requests' = Append(requests, Request(inst'))
    /\ pc' = "inflight"
    /\ wire' = NoWire
    /\ result' = NoResult
    /\ UNCHANGED <<args, idx, absorbed, cancelled, raw, formatted>>

\* the awaited make_request ends with outcome `data` (w is the reply it read,
\* NoWire if none): the rest of get_data runs and, inside discover, the loop
\* goes on until it leaves or the next request is in flight
Resume(data, w) ==
    LET r == Translate(data) IN
    /\ pc = "inflight"
    /\ IF call = "get_data"
       THEN /\ result' = r
            /\ pc' = "done"
            /\ wire' = w
            /\ UNCHANGED <<idx, inst, requests, absorbed>>
       ELSE IF r.kind = "return"
       THEN /\ result' = DiscoverReturn(inst, r.value)
            /\ pc' = "done"
            /\ wire' = w
            /\ UNCHANGED <<idx, inst, requests, absorbed>>
       ELSE IF Absorbs(r)
       THEN /\ absorbed' = Append(absorbed, r)
            /\ IF idx < Len(REGISTRY)
               THEN /\ idx' = idx + 1
                    /\ inst' = Inverter(REGISTRY[idx + 1], args[1], args[2])
                    /\ requests' = Append(requests, Request(inst'))
                    /\ wire' = NoWire
                    /\ UNCHANGED <<pc, result>>
               ELSE /\ result' = AfterLoop
                    /\ pc' = "done"
                    /\ wire' = w
                    /\ UNCHANGED <<idx, inst, requests>>
       ELSE /\ result' = r
            /\ pc' = "done"
            /\ wire' = w
            /\ UNCHANGED <<idx, inst, requests, absorbed>>
    /\ UNCHANGED <<call, args, raw, formatted>>

\* the reply to the request in flight arrives
Receive(w) ==
    /\ pc = "inflight"
    /\ Resume(make_request(inst.cls, w), w)
    /\ UNCHANGED cancelled

\* the caller cancels the call while the request is in flight: CancelledError
\* is raised at the await inside make_request
Cancel ==
    /\ pc = "inflight"
    /\ cancelled' = TRUE
    /\ Resume(Raise("CancelledError"), NoWire)

Next ==
    \/ \E h \in Hosts, p \in Ports : Discover(h, p)
    \/ \E c \in {"XHybrid", "X3"}, h \in Hosts, p \in Ports : GetData(c, h, p)
    \/ FetchReturned
    \/ \E w \in Wires : Receive(w)
    \/ Cancel

Spec == Init /\ [][Next]_vars

\* ------------------------------------------------------------------------
\* The repair of a received text, on every short text
\* ------------------------------------------------------------------------
Texts == UNION {[1..n -> {",", "7"}] : n \in 0..MaxTextLen}

InitRepair ==
    /\ pc = "raw"
    /\ call = "none"
    /\ args = <<>>
    /\ idx = 0
    /\ inst = None
    /\ requests = <<>>
    /\ absorbed = <<>>
    /\ wire = NoWire
    /\ cancelled = FALSE
    /\ result = NoResult
    /\ raw \in Texts
    /\ formatted = <<>>

RepairText ==
    /\ pc = "raw"
    /\ formatted' = Repair(raw)
    /\ pc' = "formatted"
    /\ UNCHANGED <<call, args, idx, inst, requests, absorbed, wire,
                   cancelled, result, raw>>

NextRepair == RepairText

SpecRepair == InitRepair /\ [][NextRepair]_vars

\* ------------------------------------------------------------------------
\* What the fixtures say, independently of the code
\* ------------------------------------------------------------------------
\* the number the device reports at (0-based) position i of Data
FixtureValue(w, i) ==
    IF i \in w.holes THEN [t |-> "float", v |-> 0]
    ELSE [t |-> "float", v |-> ((i * w.seed) % 9) + 1]

\* the reply is a body for variant cls in which everything but the lengths
\* of Data and Information is as the variant's schema asks
OtherFieldsValid(cls, w) ==
    /\ w.fail = "none" /\ w.enc = "utf8" /\ w.syntax = "object"
    /\ w.family = cls
    /\ w.missing = {} /\ w.numeric = {} /\ w.words = {} /\ w.nulls = {}
    /\ \/ w.holes = {}
       \/ cls = "XHybrid" /\ 0 \notin w.holes /\ (w.dataLen - 1) \notin w.holes
    /\ cls = "XHybrid" => w.status \in GoodStatus

LengthsAllowed(cls, w) ==
    IF cls = "XHybrid" THEN w.dataLen \in {58, 68}
    ELSE w.dataLen = 103 /\ w.infoLen = 9

FetchDone == pc = "done" /\ call = "get_data" /\ ~cancelled
DiscoverDone == pc = "done" /\ call = "discover"

\* ------------------------------------------------------------------------
\* Claims
\* ------------------------------------------------------------------------

\* C1: during discover the probes go out one at a time in the order
\* XHybrid, X3, each variant at most once, every probe before the last one
\* has ended in a communication error, and a successful probe is the last.
C1_ProbesAreRegistryPrefix ==
    call = "discover" =>
      /\ Len(requests) \in 1..2
      /\ Len(requests) = idx
      /\ \A k \in 1..Len(requests) :
            requests[k] = Request(Inverter(<<"XHybrid", "X3">>[k],
                                           args[1], args[2]))
      /\ Len(requests) = IF Len(absorbed) = 2 THEN 2 ELSE Len(absorbed) + 1
      /\ pc = "inflight" => Len(absorbed) = Len(requests) - 1
      /\ (pc = "done" /\ result.kind = "return") =>
            /\ Len(absorbed) = Len(requests) - 1
            /\ result.value.cls = requests[Len(requests)].cls

\* a host only X3 matches: one failed XHybrid probe, one successful X3 probe
C1_Witness ==
    /\ DiscoverDone /\ result.kind = "return"
    /\ Len(requests) = 2 /\ Len(absorbed) = 1
    /\ requests[2].cls = "X3"

\* C2 (as stated): the value discover returns is the Response the successful
\* probe produced.
C2_ReturnsProbeResponse ==
    (DiscoverDone /\ result.kind = "return") =>
      /\ result.value.obj = "InverterResponse"
      /\ result.value = get_data(inst.cls, wire).value

\* C2 (amended): when a probe succeeds discover returns at once with the
\* adapter instance that made the probe, bound to the given host and port;
\* the Response of the probe is not handed out, and the caller gets the
\* readings from one further request made through that adapter.
C2_ReturnsAdapter ==
    /\ (DiscoverDone /\ result.kind = "return") =>
          /\ get_data(inst.cls, wire).kind = "return"
          /\ result.value =
               [obj |-> "Inverter", cls |-> <<"XHybrid", "X3">>[idx],
                host |-> args[1], port |-> args[2]]
          /\ Len(requests) = idx
    /\ (call = "get_data" /\ idx > 0) =>
          /\ Len(requests) = idx + 1
          /\ requests[idx + 1] = requests[idx]
          /\ (pc = "done" /\ result.kind = "return") =>
                result.value.obj = "InverterResponse"

\* discover found X3 and the caller fetched the readings through the adapter
C2_Witness ==
    /\ pc = "done" /\ call = "get_data" /\ idx = 2
    /\ result.kind = "return" /\ inst.cls = "X3"

\* C3: discover ends with DiscoveryError exactly when both Registry entries
\* were probed and both probes ended in InverterError; the InverterErrors
\* are absorbed and never reach the caller.
C3_DiscoveryErrorIffAllFailed ==
    /\ call = "discover" =>
          \A k \in 1..Len(absorbed) : absorbed[k].exc = "InverterError"
    /\ DiscoverDone =>
          /\ result = Raise("DiscoveryError")
               <=> (Len(requests) = 2 /\ Len(absorbed) = 2)
          /\ result.kind = "raise" => result.exc # "InverterError"

\* both probes failed: XHybrid on the transport, X3 on the schema
C3_Witness ==
    /\ DiscoverDone /\ result = Raise("DiscoveryError")
    /\ Len(absorbed) = 2
    /\ absorbed[1].cause = "ClientConnectorError"
    /\ absorbed[2].cause = "MultipleInvalid"

\* C4: every failed fetch (transport failure, timeout included; non-JSON
\* body; schema violation) ends get_data with InverterError carrying the
\* cause, and so never ends discover.
C4_EveryFailureIsInverterError ==
    /\ (FetchDone /\ result.kind = "raise") =>
          /\ result.exc = "InverterError"
          /\ wire.fail # "none" => result.cause = wire.fail
    /\ (DiscoverDone /\ ~cancelled /\ result.kind = "raise") =>
          result.exc = "DiscoveryError"

\* C5: the readings of a Response have exactly the variant's sensor names as
\* keys, each bound to the number the device reported at the name's index.
C5_ReadingsFollowSensorMap ==
    (FetchDone /\ result.kind = "return") =>
      LET smap == IF inst.cls = "XHybrid" THEN XHybridSensorMap
                  ELSE X3SensorMap
      IN /\ DOMAIN result.value.data = DOMAIN smap
         /\ \A name \in DOMAIN smap :
               result.value.data[name] = FixtureValue(wire, smap[name][1])

\* an XHybrid payload with three adjacent omitted values is mapped
C5_Witness ==
    /\ FetchDone /\ result.kind = "return"
    /\ inst.cls = "XHybrid" /\ wire.holes = {3, 4, 5} /\ wire.seed = 2

\* C6: with all other fields valid a payload passes the schema exactly when
\* Data has 58 or 68 elements (XHybrid), or Data has 103 and Information 9
\* (X3); a failing payload gives a communication error and no Response.
C6_PassesIffLengthsAllowed ==
    (FetchDone /\ OtherFieldsValid(inst.cls, wire)) =>
      /\ result.kind = "return" <=> LengthsAllowed(inst.cls, wire)
      /\ ~LengthsAllowed(inst.cls, wire) =>
            /\ result.kind = "raise"
            /\ result.exc = "InverterError"
            /\ result.cause = "MultipleInvalid"

\* the second XHybrid revision passes
C6_Witness ==
    /\ FetchDone /\ OtherFieldsValid(inst.cls, wire)
    /\ inst.cls = "XHybrid" /\ wire.dataLen = 68
    /\ result.kind = "return"

\* the pieces of a short text between separators
RECURSIVE Flatten(_)
Flatten(ss) == IF ss = <<>> THEN <<>> ELSE Head(ss) \o Flatten(Tail(ss))

\* the text with a zero written into every gap between two separators
FillOmitted(s) ==
    Flatten([i \in 1..Len(s) |->
               IF i < Len(s) /\ s[i] = "," /\ s[i + 1] = ","
               THEN <<",", "0", ".", "0">> ELSE <<s[i]>>])

\* C7: after the two replacement passes the text has no two consecutive
\* separators and exactly one zero in each omitted position, whatever the
\* length of the runs of omissions; it parses, the omitted values being 0.
C7_RepairFillsEveryGap ==
    pc = "formatted" =>
      /\ \A j \in 1..(Len(formatted) - 1) :
            ~(formatted[j] = "," /\ formatted[j + 1] = ",")
      /\ formatted = FillOmitted(raw)
      /\ LET toks == Split(raw, 1, Len(raw)) IN
         (raw # <<>> /\ raw[1] # "," /\ raw[Len(raw)] # ","
            /\ \A k \in 1..Len(toks) : Len(toks[k]) <= 1) =>
           LET arr == JsonArray(formatted) IN
           /\ arr.kind = "return"
           /\ Len(arr.value) = Len(toks)
           /\ \A k \in 1..Len(toks) :
                 arr.value[k] = IF toks[k] = <<>>
                                THEN [t |-> "float", v |-> 0]
                                ELSE [t |-> "int", v |-> 7]

\* three adjacent omissions
C7_Witness ==
    /\ pc = "formatted"
    /\ raw = <<"7", ",", ",", ",", ",", "7">>
    /\ formatted = <<"7", ",", "0", ".", "0", ",", "0", ".", "0", ",",
                     "0", ".", "0", ",", "7">>

XHybridIndices == {XHybridSensorMap[name][1] : name \in DOMAIN XHybridSensorMap}

\* C8 (as stated): the XHybrid sensor map has exactly 23 entries, at the
\* indices 0..17, 19, 50, 53..56, no two names at the same index.
C8_TwentyThreeEntries ==
    (inst.obj = "Inverter" /\ inst.cls = "XHybrid") =>
      /\ Cardinality(DOMAIN sensor_map(inst.cls)) = 23
      /\ XHybridIndices = (0..17) \cup {19, 50} \cup (53..56)
      /\ Cardinality(XHybridIndices) = Cardinality(DOMAIN XHybridSensorMap)

\* C8 (amended): the XHybrid sensor map has exactly 24 entries, at the
\* indices 0..17, 19, 50, 53..56, no two names at the same index.
C8_TwentyFourEntries ==
    (inst.obj = "Inverter" /\ inst.cls = "XHybrid") =>
      /\ Cardinality(DOMAIN sensor_map(inst.cls)) = 24
      /\ XHybridIndices = (0..17) \cup {19, 50} \cup (53..56)
      /\ Cardinality(XHybridIndices) = Cardinality(DOMAIN XHybridSensorMap)
      /\ (FetchDone /\ result.kind = "return") =>
            Cardinality(DOMAIN result.value.data) = 24

C8_Witness ==
    /\ FetchDone /\ inst.cls = "XHybrid" /\ result.kind = "return"
    /\ wire.dataLen = 58

\* C9: every index of a sensor map lies below the shortest Data length the
\* schema accepts (58 for XHybrid, 103 for X3); no fetch ends with an index
\* out of bounds and every validated payload gives a complete Response.
C9_IndicesWithinValidatedLength ==
    /\ \A name \in DOMAIN XHybridSensorMap : XHybridSensorMap[name][1] < 58
    /\ \A name \in DOMAIN X3SensorMap : X3SensorMap[name][1] < 103
    /\ FetchDone =>
          /\ result.kind = "raise" => result.exc # "IndexError"
          /\ (OtherFieldsValid(inst.cls, wire) /\ LengthsAllowed(inst.cls, wire))
                => /\ result.kind = "return"
                   /\ DOMAIN result.value.data = DOMAIN sensor_map(inst.cls)

\* the shortest payload XHybrid accepts is mapped completely
C9_Witness ==
    /\ FetchDone /\ OtherFieldsValid(inst.cls, wire)
    /\ inst.cls = "XHybrid" /\ wire.dataLen = 58 /\ wire.holes = {}
    /\ result.kind = "return"
    /\ "EPS Frequency" \in DOMAIN result.value.data

\* C10: a call cancelled while a request is in flight ends at once with the
\* cancellation: no Response and no adapter is returned, no later variant is
\* probed and the cancellation is not absorbed as a communication error.
C10_CancelEndsCall ==
    cancelled =>
      /\ pc = "done"
      /\ result = Raise("CancelledError")
      /\ call = "discover" =>
            /\ Len(requests) = idx
            /\ Len(absorbed) = idx - 1
      /\ call = "get_data" => Len(requests) = idx + 1
      /\ \A k \in 1..Len(absorbed) : absorbed[k].cause # "CancelledError"

\* discover cancelled during its first probe, X3 still untried
C10_Witness ==
    /\ cancelled /\ call = "discover" /\ idx = 1 /\ pc = "done"
    /\ Len(requests) = 1

====
